---------------------------- MODULE Spec2Model ----------------------------
(***************************************************************************)
(* Model of the openstorage alert bus (src/alert/alert_kvdb.go,            *)
(* src/alert/alert.go) and of the cluster state store                      *)
(* (src/cluster/database.go).                                              *)
(*                                                                         *)
(* The key-value store (github.com/portworx/kvdb) is an external           *)
(* dependency.  It is modelled by its contract: Create fails when the key  *)
(* exists, Update and Delete fail when it is absent, GetVal fails with     *)
(* ErrNotFound when it is absent, CompareAndSet succeeds only when the     *)
(* stored bytes equal the expected previous bytes, and every call is       *)
(* atomic.  Transport failures of the store are not modelled.              *)
(*                                                                         *)
(* The specifications of the module:                                       *)
(*   Spec        - the alert store and the identifier allocator, with      *)
(*                 concurrent callers interleaved at every store call;     *)
(*   SpecLife    - the same callers in scenarios of repeated Subscribe,    *)
(*                 Clear and Enumerate calls, with the history of calls;   *)
(*   SpecCluster - the cluster state store;                                *)
(*   SpecWatch   - the watch subsystem (SpecWatchFair: the same with a     *)
(*                 Watch call that keeps taking steps);                    *)
(*   SpecBus     - the alert store watched by a Ready watcher;             *)
(*   SpecLock    - the locks that guard kvdbMap and watcherMap.            *)
(***************************************************************************)
EXTENDS Integers, Sequences, FiniteSets, TLC

\* ------------------------------------------------------------------------
\* Bounds of the alert-store model
\* ------------------------------------------------------------------------
NumProcs == 2
MaxRaise == 2
MaxSubs == 1
MaxDepth == 2
MaxClear == 1
MaxErase == 1
MaxRetrieve == 1

Procs == 1..NumProcs

\* api.ResourceType
ResourceTypes == {"NONE", "VOLUME", "NODE", "CLUSTER", "DRIVE"}
\* the resource types the callers of the model pass in
InputResources == {"NONE", "VOLUME", "NODE"}
\* api.Alert.AlertType values the callers of the model pass in
AlertTypes == {7, 8}

Nil == "nil"

\* ------------------------------------------------------------------------
\* Keys and encodings
\* ------------------------------------------------------------------------
alertKey == "alert/"
volumeKey == "volume/"
nodeKey == "node/"
clusterKey == "cluster/"
driveKey == "drive/"

\* strconv.FormatInt(n, 10) for n >= 0: the decimal digits, most significant
\* first
RECURSIVE FormatInt(_)
FormatInt(n) ==
    IF n < 10 THEN <<n>> ELSE Append(FormatInt(n \div 10), n % 10)

\* json.Unmarshal of a decimal byte string into an int
RECURSIVE ParseInt(_)
ParseInt(s) ==
    IF Len(s) = 0 THEN 0
    ELSE ParseInt(SubSeq(s, 1, Len(s) - 1)) * 10 + s[Len(s)]

getResourceKey(resourceType) ==
    IF resourceType = "VOLUME" THEN <<alertKey, volumeKey>>
    ELSE IF resourceType = "NODE" THEN <<alertKey, nodeKey>>
    ELSE IF resourceType = "CLUSTER" THEN <<alertKey, clusterKey>>
    ELSE <<alertKey, driveKey>>

\* getResourceKey(resourceType) + strconv.FormatInt(alertID, 10)
AlertRecordKey(resourceType, alertID) ==
    <<getResourceKey(resourceType), FormatInt(alertID)>>

VARIABLES
    kvCounter,     \* bytes stored at alert/nextAlertId, << >> when absent
    kvAlerts,      \* alert records: function from record key to api.Alert
    kvSubs,        \* subscription lists by parent AlertType, << >> when absent
    pc,            \* per caller: the operation in progress
    stack,         \* per caller: the frames of the recursive Raise
    local,         \* per caller: locals of Clear / Subscribe
    result,        \* outcome of the Raise call that returned last
    assigned,      \* history: identifiers returned by getNextIDFromKVDB
    raised,        \* history: records created by raise, in order
    erased,        \* history: <<resourceType, id>> successfully erased
    calls,         \* history: number of calls started, per operation
    limit,         \* the number of calls the callers make, per operation
    enumResult     \* outcome of the Enumerate call that returned last

alertVars == <<kvCounter, kvAlerts, kvSubs, pc, stack, local, result,
               assigned, raised, erased, calls, limit, enumResult>>


\* ------------------------------------------------------------------------
\* Errors
\* ------------------------------------------------------------------------
ErrResourceNotFound == "ErrResourceNotFound"
ErrSubscribedRaise == "ErrSubscribedRaise"
ErrNotInitialized == "ErrNotInitialized"
\* kvdb.ErrNotFound, kvdb.ErrExist
KvErrNotFound == "kvdb.ErrNotFound"
KvErrExist == "kvdb.ErrExist"

\* ------------------------------------------------------------------------
\* Recursive Raise: the call stack of KvAlert.Raise
\* ------------------------------------------------------------------------
\* One activation of KvAlert.Raise(a).  phase is the next store call of the
\* activation: "lookup" (GetVal of the subscription list), "alloc" (raise:
\* the resource check and the Create of the counter), "read" / "cas" (the
\* retry loop of getNextIDFromKVDB), "create" (the Create of the record).
Frame(a) ==
    [a |-> a, children |-> <<>>, phase |-> "lookup",
     nextAlertID |-> 0, prevValue |-> <<>>]

Top(stk) == stk[Len(stk)]
Front(stk) == SubSeq(stk, 1, Len(stk) - 1)
SetTop(stk, f) == [stk EXCEPT ![Len(stk)] = f]

\* a Raise that does not raise the subscribed children
RaiseSkipChildren(stk) == SetTop(stk, [Top(stk) EXCEPT !.phase = "alloc"])

\* The loop over the subscriptions of the top activation: call Raise on the
\* next child, or fall through to kva.raise(a) when none is left.
RaiseNextChild(stk) ==
    LET top == Top(stk) IN
    IF top.children = <<>>
    THEN SetTop(stk, [top EXCEPT !.phase = "alloc"])
    ELSE Append(SetTop(stk, [top EXCEPT !.children = Tail(top.children)]),
                Frame(Head(top.children)))

\* An activation returned err to the activation below it (stk is the stack
\* without the returning activation).  A failed child makes every enclosing
\* Raise return ErrSubscribedRaise.
RECURSIVE RaiseReturn(_, _)
RaiseReturn(stk, err) ==
    IF stk = <<>> THEN [stack |-> <<>>, err |-> err]
    ELSE IF err # Nil THEN RaiseReturn(Front(stk), ErrSubscribedRaise)
    ELSE [stack |-> RaiseNextChild(stk), err |-> Nil]

\* The top activation of caller p returns err, after allocating `allocs` and
\* creating `creates` more identifiers / records in its last step.  local[p]
\* keeps, per Raise call, the alert passed in and the number of identifiers
\* allocated and records created by the call so far (history).
RaiseStep(p, newStack, err, allocs, creates) ==
    LET loc == [local[p] EXCEPT !.allocs = @ + allocs,
                                !.creates = @ + creates] IN
    IF newStack = <<>>
    THEN /\ pc' = [pc EXCEPT ![p] = "idle"]
         /\ stack' = [stack EXCEPT ![p] = <<>>]
         /\ local' = [local EXCEPT ![p] = <<>>]
         /\ result' = [op |-> "Raise", err |-> err,
                       resource |-> loc.a.Resource,
                       allocs |-> loc.allocs, creates |-> loc.creates]
    ELSE /\ stack' = [stack EXCEPT ![p] = newStack]
         /\ local' = [local EXCEPT ![p] = loc]
         /\ UNCHANGED <<pc, result>>

\* a Raise that hands the error of a subscribed alert to its caller as it is
FinishRaiseSameError(p, err, creates) ==
    RaiseStep(p, RaiseReturn(Front(stack[p]), err).stack, err, 0, creates)

\* the top activation returns err: Raise returns what kva.raise(a) returned,
\* and the activations below it return ErrSubscribedRaise on an error
FinishRaise(p, err, creates) ==
    LET r == RaiseReturn(Front(stack[p]), err) IN
    RaiseStep(p, r.stack, r.err, 0, creates)

\* the top activation moves to its next store call
RaisePhase(p, f, allocs) ==
    RaiseStep(p, SetTop(stack[p], f), Nil, allocs, 0)

\* the record raise() stores for template a with identifier id
RaisedAlert(a, id) ==
    [Id |-> id, Resource |-> a.Resource, AlertType |-> a.AlertType,
     Severity |-> a.Severity, Cleared |-> FALSE]

\* the alerts the callers of the model pass in
Templates ==
    {[Resource |-> "VOLUME", AlertType |-> 7, Severity |-> 3],
     [Resource |-> "NODE", AlertType |-> 8, Severity |-> 1],
     [Resource |-> "NONE", AlertType |-> 7, Severity |-> 2]}

\* KvAlert.Raise is called
StartRaise(p, a) ==
    /\ pc[p] = "idle"
    /\ calls.Raise < limit.Raise
    /\ calls' = [calls EXCEPT !.Raise = @ + 1]
    /\ pc' = [pc EXCEPT ![p] = "raise"]
    /\ stack' = [stack EXCEPT ![p] = <<Frame(a)>>]
    /\ local' = [local EXCEPT ![p] = [a |-> a, allocs |-> 0, creates |-> 0]]
    /\ UNCHANGED <<kvCounter, kvAlerts, kvSubs, result, assigned,
                   raised, erased>>
    /\ UNCHANGED <<limit, enumResult>>

\* kv.GetVal(getSubscriptionsKey(a.AlertType), &subscriptions)
RaiseLookup(p) ==
    /\ pc[p] = "raise"
    /\ Top(stack[p]).phase = "lookup"
    /\ Len(stack[p]) <= MaxDepth
    /\ LET top == Top(stack[p])
           subs == kvSubs[top.a.AlertType] IN
       stack' = [stack EXCEPT ![p] =
                    RaiseNextChild(SetTop(stack[p],
                                          [top EXCEPT !.children = subs]))]
    /\ UNCHANGED <<kvCounter, kvAlerts, kvSubs, pc, local, result, assigned,
                   raised, erased, calls>>
    /\ UNCHANGED <<limit, enumResult>>

\* the recursion is deeper than the goroutine stack allows
RaiseOverflow(p) ==
    /\ pc[p] = "raise"
    /\ Top(stack[p]).phase = "lookup"
    /\ Len(stack[p]) > MaxDepth
    /\ pc' = [pc EXCEPT ![p] = "overflow"]
    /\ UNCHANGED <<kvCounter, kvAlerts, kvSubs, stack, local, result,
                   assigned, raised, erased, calls>>
    /\ UNCHANGED <<limit, enumResult>>

\* a counter that is written back without the increment
NextCounterBytesNoIncrement(nextAlertID) == FormatInt(nextAlertID)

\* the value getNextIDFromKVDB stores: strconv.FormatInt(nextAlertID+1, 10)
NextCounterBytes(nextAlertID) == FormatInt(nextAlertID + 1)

\* a write of the counter that does not compare with the value read
CompareAndSetBlind(stored, prevValue) == TRUE

\* kv.CompareAndSet(&newKvp, kvdb.KVFlags(0), prevValue) succeeds
CompareAndSetOk(stored, prevValue) == stored = prevValue

\* raise(): the resource check, then the first store call of
\* getNextIDFromKVDB, kv.Create of the counter with "1"
RaiseAlloc(p) ==
    /\ pc[p] = "raise"
    /\ Top(stack[p]).phase = "alloc"
    /\ LET top == Top(stack[p]) IN
       IF top.a.Resource = "NONE"
       THEN /\ FinishRaise(p, ErrResourceNotFound, 0)
            /\ UNCHANGED <<kvCounter, assigned>>
       ELSE IF kvCounter = <<>>
       THEN /\ kvCounter' = NextCounterBytes(0)
            /\ assigned' = Append(assigned, 0)
            /\ RaisePhase(p, [top EXCEPT !.phase = "create"], 1)
       ELSE /\ RaisePhase(p, [top EXCEPT !.phase = "read"], 0)
            /\ UNCHANGED <<kvCounter, assigned>>
    /\ UNCHANGED <<kvAlerts, kvSubs, raised, erased, calls>>
    /\ UNCHANGED <<limit, enumResult>>

\* getNextIDFromKVDB: kv.GetVal(getNextAlertIDKey(), &nextAlertID)
GetNextIDRead(p) ==
    /\ pc[p] = "raise"
    /\ Top(stack[p]).phase = "read"
    /\ LET top == Top(stack[p]) IN
       IF kvCounter = <<>>
       THEN FinishRaise(p, ErrNotInitialized, 0)
       ELSE RaisePhase(p, [top EXCEPT !.phase = "cas",
                                      !.nextAlertID = ParseInt(kvCounter),
                                      !.prevValue = kvCounter], 0)
    /\ UNCHANGED <<kvCounter, kvAlerts, kvSubs, assigned, raised,
                   erased, calls>>
    /\ UNCHANGED <<limit, enumResult>>

\* an allocator that returns the conflict of the compare-and-set
GetNextIDCasOnce(p) ==
    /\ pc[p] = "raise"
    /\ Top(stack[p]).phase = "cas"
    /\ LET top == Top(stack[p]) IN
       IF CompareAndSetOk(kvCounter, top.prevValue)
       THEN /\ kvCounter' = NextCounterBytes(top.nextAlertID)
            /\ assigned' = Append(assigned, top.nextAlertID)
            /\ RaisePhase(p, [top EXCEPT !.phase = "create"], 1)
       ELSE /\ FinishRaise(p, "kvdb.ErrValueMismatch", 0)
            /\ UNCHANGED <<kvCounter, assigned>>
    /\ UNCHANGED <<kvAlerts, kvSubs, raised, erased, calls>>
    /\ UNCHANGED <<limit, enumResult>>

\* getNextIDFromKVDB: kv.CompareAndSet(&newKvp, kvdb.KVFlags(0), prevValue)
GetNextIDCas(p) ==
    /\ pc[p] = "raise"
    /\ Top(stack[p]).phase = "cas"
    /\ LET top == Top(stack[p]) IN
       IF CompareAndSetOk(kvCounter, top.prevValue)
       THEN /\ kvCounter' = NextCounterBytes(top.nextAlertID)
            /\ assigned' = Append(assigned, top.nextAlertID)
            /\ RaisePhase(p, [top EXCEPT !.phase = "create"], 1)
       ELSE /\ RaisePhase(p, [top EXCEPT !.phase = "read"], 0)
            /\ UNCHANGED <<kvCounter, assigned>>
    /\ UNCHANGED <<kvAlerts, kvSubs, raised, erased, calls>>
    /\ UNCHANGED <<limit, enumResult>>

\* kv.Create(key, value, ttl): fails when the key exists
KvCreate(store, key, value) ==
    IF key \in DOMAIN store
    THEN [store |-> store, err |-> KvErrExist]
    ELSE [store |-> [k \in DOMAIN store \cup {key} |->
                        IF k = key THEN value ELSE store[k]],
          err |-> Nil]

\* raise(): kv.Create(getResourceKey(a.Resource)+FormatInt(a.Id), a, a.Ttl)
RaiseCreate(p) ==
    /\ pc[p] = "raise"
    /\ Top(stack[p]).phase = "create"
    /\ LET top == Top(stack[p])
           id == top.nextAlertID
           key == AlertRecordKey(top.a.Resource, id)
           c == KvCreate(kvAlerts, key, RaisedAlert(top.a, id)) IN
       /\ kvAlerts' = c.store
       /\ raised' = IF c.err = Nil
                    THEN Append(raised, [key |-> key, id |-> id])
                    ELSE raised
       /\ FinishRaise(p, c.err, IF c.err = Nil THEN 1 ELSE 0)
    /\ UNCHANGED <<kvCounter, kvSubs, assigned, erased, calls>>
    /\ UNCHANGED <<limit, enumResult>>


\* ------------------------------------------------------------------------
\* Subscribe, Clear, Erase, Retrieve
\* ------------------------------------------------------------------------
IdInputs == 0..MaxRaise

\* Subscribe: kv.GetVal(getSubscriptionsKey(parentAlertType), &subscriptions)
\* and the append of the child
SubscribeRead(p, parentAlertType, childAlert) ==
    /\ pc[p] = "idle"
    /\ calls.Subscribe < limit.Subscribe
    /\ calls' = [calls EXCEPT !.Subscribe = @ + 1]
    /\ pc' = [pc EXCEPT ![p] = "subscribePut"]
    /\ local' = [local EXCEPT ![p] =
                    [parentAlertType |-> parentAlertType,
                     subscriptions |-> Append(kvSubs[parentAlertType],
                                              childAlert)]]
    /\ UNCHANGED <<kvCounter, kvAlerts, kvSubs, stack, result, assigned,
                   raised, erased>>
    /\ UNCHANGED <<limit, enumResult>>

\* Subscribe: kv.Put(getSubscriptionsKey(parentAlertType), subscriptions, 0)
SubscribePut(p) ==
    /\ pc[p] = "subscribePut"
    /\ kvSubs' = [kvSubs EXCEPT ![local[p].parentAlertType] =
                     local[p].subscriptions]
    /\ pc' = [pc EXCEPT ![p] = "idle"]
    /\ local' = [local EXCEPT ![p] = <<>>]
    /\ UNCHANGED <<kvCounter, kvAlerts, stack, result, assigned, raised,
                   erased, calls>>
    /\ UNCHANGED <<limit, enumResult>>

\* clear(): the error of the resource check and of kv.GetVal of the record
ClearReadErr(resourceType, alertID) ==
    IF resourceType = "NONE" THEN ErrResourceNotFound
    ELSE IF AlertRecordKey(resourceType, alertID) \notin DOMAIN kvAlerts
    THEN KvErrNotFound
    ELSE Nil

\* a clear that flips the flag
MarkToggled(alert) == [alert EXCEPT !.Cleared = ~@]

\* clear(): alert.Cleared = true
MarkCleared(alert) == [alert EXCEPT !.Cleared = TRUE]

\* clear(): the resource check and kv.GetVal of the record; the call returns
\* here when either fails
ClearRead(p, resourceType, alertID) ==
    /\ pc[p] = "idle"
    /\ calls.Clear < limit.Clear
    /\ calls' = [calls EXCEPT !.Clear = @ + 1]
    /\ LET key == AlertRecordKey(resourceType, alertID) IN
       IF ClearReadErr(resourceType, alertID) # Nil
       THEN UNCHANGED <<pc, local>>
       ELSE /\ pc' = [pc EXCEPT ![p] = "clearUpdate"]
            /\ local' = [local EXCEPT ![p] =
                           [key |-> key,
                            alert |-> MarkCleared(kvAlerts[key])]]
    /\ UNCHANGED <<kvCounter, kvAlerts, kvSubs, stack, result, assigned,
                   raised, erased>>
    /\ UNCHANGED <<limit, enumResult>>

\* an Update that creates the key when it is absent
KvUpdateOrCreate(store, key, value) ==
    [store |-> [k \in DOMAIN store \cup {key} |->
                   IF k = key THEN value ELSE store[k]],
     err |-> Nil]

\* kv.Update(key, value, ttl): fails when the key is absent
KvUpdate(store, key, value) ==
    IF key \in DOMAIN store
    THEN [store |-> [store EXCEPT ![key] = value], err |-> Nil]
    ELSE [store |-> store, err |-> KvErrNotFound]

\* kv.Put(key, value, ttl): writes whether or not the key exists
KvPut(store, key, value) ==
    [store |-> [k \in DOMAIN store \cup {key} |->
                   IF k = key THEN value ELSE store[k]],
     err |-> Nil]

\* a write-back of the cleared record with Put
ClearWriteBackPut(store, key, alert) == KvPut(store, key, alert)

\* clear(): kv.Update(key, &alert, ttl)
ClearWriteBack(store, key, alert) == KvUpdate(store, key, alert)

\* clear(): the write-back of the record read before, with Cleared = true
ClearUpdate(p) ==
    /\ pc[p] = "clearUpdate"
    /\ kvAlerts' = ClearWriteBack(kvAlerts, local[p].key, local[p].alert).store
    /\ pc' = [pc EXCEPT ![p] = "idle"]
    /\ local' = [local EXCEPT ![p] = <<>>]
    /\ UNCHANGED <<kvCounter, kvSubs, stack, result, assigned, raised,
                   erased, calls>>
    /\ UNCHANGED <<limit, enumResult>>

\* kv.Delete(key): fails when the key is absent
KvDelete(store, key) ==
    IF key \in DOMAIN store
    THEN [store |-> [k \in DOMAIN store \ {key} |-> store[k]], err |-> Nil]
    ELSE [store |-> store, err |-> KvErrNotFound]

\* the key KvAlert.Erase deletes
EraseKey(resourceType, alertID) == AlertRecordKey(resourceType, alertID)

\* KvAlert.Erase
Erase(p, resourceType, alertID) ==
    /\ pc[p] = "idle"
    /\ calls.Erase < limit.Erase
    /\ calls' = [calls EXCEPT !.Erase = @ + 1]
    /\ IF resourceType = "NONE"
       THEN UNCHANGED <<kvAlerts, erased>>
       ELSE LET d == KvDelete(kvAlerts, EraseKey(resourceType, alertID))
            IN /\ kvAlerts' = d.store
               /\ erased' = IF d.err = Nil
                            THEN erased \cup {<<resourceType, alertID>>}
                            ELSE erased
    /\ UNCHANGED <<kvCounter, kvSubs, pc, stack, local, result, assigned,
                   raised>>
    /\ UNCHANGED <<limit, enumResult>>

\* KvAlert.Retrieve applied to the current store: the error it returns
RetrieveErr(resourceType, alertID) ==
    IF resourceType = "NONE" THEN ErrResourceNotFound
    ELSE IF AlertRecordKey(resourceType, alertID) \in DOMAIN kvAlerts THEN Nil
    ELSE KvErrNotFound

\* KvAlert.Retrieve: a read of the store, returning RetrieveErr
Retrieve(p, resourceType, alertID) ==
    /\ pc[p] = "idle"
    /\ calls.Retrieve < limit.Retrieve
    /\ calls' = [calls EXCEPT !.Retrieve = @ + 1]
    /\ UNCHANGED <<kvCounter, kvAlerts, kvSubs, pc, stack, local, result,
                   assigned, raised, erased>>
    /\ UNCHANGED <<limit, enumResult>>

\* ------------------------------------------------------------------------
\* Enumerate
\* ------------------------------------------------------------------------
MaxEnumerate == 1

ErrNoAlerts == "No alert raised yet"

\* api.Alert.Severity values of the filters the callers of the model pass in
SeverityInputs == {0, 1, 3}
EnumFilters == [Resource : InputResources, Severity : SeverityInputs]

\* the order of byte strings, in which the store lists the keys of a prefix
RECURSIVE LexLess(_, _)
LexLess(s, t) ==
    IF s = <<>> THEN t # <<>>
    ELSE IF t = <<>> THEN FALSE
    ELSE IF Head(s) # Head(t) THEN Head(s) < Head(t)
    ELSE LexLess(Tail(s), Tail(t))

RECURSIVE SortedKeys(_)
SortedKeys(keys) ==
    IF keys = {} THEN <<>>
    ELSE LET first == CHOOSE k \in keys :
                         \A j \in keys \ {k} : LexLess(k[2], j[2])
         IN <<first>> \o SortedKeys(keys \ {first})

\* kv.Enumerate(prefix): the pairs under the prefix (none when no key has it)
KvEnumerate(store, prefix) ==
    SortedKeys({k \in DOMAIN store : k[1] = prefix})

\* getResourceSpecificAlerts: the decoded records of one partition
getResourceSpecificAlerts(store, resourceType) ==
    LET kvp == KvEnumerate(store, getResourceKey(resourceType))
    IN [i \in 1..Len(kvp) |-> store[kvp[i]]]

\* a scan of all partitions that leaves out the volume partition
AllPartitionsNoVolume == <<"NODE", "CLUSTER", "DRIVE">>

\* getAllAlerts: the partitions in the order they are scanned
AllPartitions == <<"NODE", "VOLUME", "CLUSTER", "DRIVE">>

\* a severity filter that leaves out the records of the filter's severity
SeverityBelow(v, filter) == v.Severity < filter.Severity

\* enumerate: v.Severity <= filter.Severity
SeverityMatches(v, filter) == v.Severity <= filter.Severity

\* enumerate: the severity filter, applied when filter.Severity != 0
FilterSeverity(resourceAlerts, filter) ==
    IF filter.Severity # 0
    THEN SelectSeq(resourceAlerts, LAMBDA v : SeverityMatches(v, filter))
    ELSE resourceAlerts

\* enumerate returns resourceAlerts, err to the caller p; start is the
\* content of the store when the call was made and quiet says whether every
\* scan of the call found the store with that content (history)
EnumerateReturn(p, filter, resourceAlerts, err, start, quiet) ==
    /\ enumResult' = [op |-> "Enumerate", filter |-> filter,
                      alerts |-> FilterSeverity(resourceAlerts, filter),
                      err |-> err, store |-> start, quiet |-> quiet]
    /\ pc' = [pc EXCEPT ![p] = "idle"]
    /\ local' = [local EXCEPT ![p] = <<>>]

\* getAllAlerts: the scan of the next partition and, after the last one,
\* the test of len(allAlerts)
ScanPartition(p, loc) ==
    LET all == loc.allAlerts
                 \o getResourceSpecificAlerts(kvAlerts, Head(loc.todo))
        quiet == loc.quiet /\ kvAlerts = loc.start
    IN IF Tail(loc.todo) = <<>>
       THEN EnumerateReturn(p, loc.filter, all,
                            IF Len(all) > 0 THEN Nil ELSE ErrNoAlerts,
                            loc.start, quiet)
       ELSE /\ pc' = [pc EXCEPT ![p] = "enumerate"]
            /\ local' = [local EXCEPT ![p] =
                            [loc EXCEPT !.todo = Tail(loc.todo),
                                        !.allAlerts = all,
                                        !.quiet = quiet]]
            /\ UNCHANGED enumResult

\* KvAlert.Enumerate is called: the scan of the partition of filter.Resource,
\* or the first scan of getAllAlerts
Enumerate(p, filter) ==
    /\ pc[p] = "idle"
    /\ calls.Enumerate < limit.Enumerate
    /\ calls' = [calls EXCEPT !.Enumerate = @ + 1]
    /\ IF filter.Resource # "NONE"
       THEN EnumerateReturn(p, filter,
                            getResourceSpecificAlerts(kvAlerts,
                                                      filter.Resource),
                            Nil, kvAlerts, TRUE)
       ELSE ScanPartition(p, [filter |-> filter, todo |-> AllPartitions,
                              allAlerts |-> <<>>, start |-> kvAlerts,
                              quiet |-> TRUE])
    /\ UNCHANGED <<kvCounter, kvAlerts, kvSubs, stack, result, assigned,
                   raised, erased, limit>>

\* getAllAlerts: the scan of a further partition
EnumerateScan(p) ==
    /\ pc[p] = "enumerate"
    /\ ScanPartition(p, local[p])
    /\ UNCHANGED <<kvCounter, kvAlerts, kvSubs, stack, result, assigned,
                   raised, erased, calls, limit>>

\* ------------------------------------------------------------------------
\* Initial state and next-state relation of the alert store
\* ------------------------------------------------------------------------
\* the state after construction, for callers that make limits[op] calls of
\* operation op
AlertStart(limits) ==
    /\ kvCounter = <<>>
    /\ kvAlerts = <<>>
    /\ kvSubs = [t \in AlertTypes |-> <<>>]
    /\ pc = [p \in Procs |-> "idle"]
    /\ stack = [p \in Procs |-> <<>>]
    /\ local = [p \in Procs |-> <<>>]
    /\ result = [op |-> "none", err |-> Nil, resource |-> "NONE",
                 allocs |-> 0, creates |-> 0]
    /\ assigned = <<>>
    /\ raised = <<>>
    /\ erased = {}
    /\ calls = [Raise |-> 0, Subscribe |-> 0, Clear |-> 0, Erase |-> 0,
                Retrieve |-> 0, Enumerate |-> 0]
    /\ limit = limits
    /\ enumResult = [op |-> "none", filter |-> Nil, alerts |-> <<>>,
                     err |-> Nil, store |-> <<>>, quiet |-> TRUE]

\* concurrent callers of Raise, Subscribe, Clear, Erase and Retrieve
AlertInit ==
    AlertStart([Raise |-> MaxRaise, Subscribe |-> MaxSubs,
                Clear |-> MaxClear, Erase |-> MaxErase,
                Retrieve |-> MaxRetrieve, Enumerate |-> 0])

\* a step of caller p in a call that writes to the store
AlertWriteStep(p) ==
    \/ \E a \in Templates : StartRaise(p, a)
    \/ RaiseLookup(p)
    \/ RaiseOverflow(p)
    \/ RaiseAlloc(p)
    \/ GetNextIDRead(p)
    \/ GetNextIDCas(p)
    \/ RaiseCreate(p)
    \/ \E t \in AlertTypes, c \in Templates : SubscribeRead(p, t, c)
    \/ SubscribePut(p)
    \/ \E r \in InputResources, i \in IdInputs : ClearRead(p, r, i)
    \/ ClearUpdate(p)
    \/ \E r \in InputResources, i \in IdInputs : Erase(p, r, i)

\* a step of caller p
AlertStep(p) ==
    \/ AlertWriteStep(p)
    \/ \E r \in InputResources, i \in IdInputs : Retrieve(p, r, i)

AlertNext == \E p \in Procs : AlertStep(p)

\* ------------------------------------------------------------------------
\* Scenarios of the alert lifecycle
\* ------------------------------------------------------------------------
MaxRepeat == 2

\* repeated Subscribe calls, a Raise and an Enumerate
SubscribeScenario ==
    [Raise |-> 1, Subscribe |-> MaxRepeat, Clear |-> 0, Erase |-> 0,
     Retrieve |-> 0, Enumerate |-> MaxEnumerate]

\* a Raise, repeated Clear calls, an Erase and a Retrieve
ClearScenario ==
    [Raise |-> 1, Subscribe |-> 0, Clear |-> MaxRepeat, Erase |-> MaxErase,
     Retrieve |-> MaxRetrieve, Enumerate |-> 0]

\* repeated Raise calls, a Clear, an Erase and an Enumerate
EnumerateScenario ==
    [Raise |-> MaxRepeat, Subscribe |-> 0, Clear |-> MaxClear,
     Erase |-> MaxErase, Retrieve |-> 0, Enumerate |-> MaxEnumerate]

LifeInit ==
    \E limits \in {SubscribeScenario, ClearScenario, EnumerateScenario} :
        AlertStart(limits)

\* What the scenarios record about the calls (history):
VARIABLES
    subscribed,   \* <<parentAlertType, child>> of the Subscribe calls that
                  \* returned, in order
    lostAppend,   \* parent types whose list was written by a Subscribe that
                  \* had read an older list
    expect,       \* per caller in Raise: the children subscribed under the
                  \* alert's type by the Subscribe calls that had returned
                  \* when Raise was called
    made,         \* per caller in Raise: the templates of the records the
                  \* call created
    own,          \* per caller in Raise: the identifiers allocated and the
                  \* records created by the outermost activation (raise(a)
                  \* of the alert passed in)
    raiseObs,     \* the Raise call that returned last: its error, what it
                  \* made, what its outermost activation did, and whether it
                  \* returned out of a nested activation (childFailed)
    clearedKeys,  \* keys of the records a Clear call has written back
    clearObs      \* the Clear call that last returned from its write-back:
                  \* its error, the record before and after the write-back
                  \* (Nil when absent), whether it existed before, and
                  \* whether an earlier Clear had written the record back

obsVars == <<subscribed, lostAppend, expect, made, own, raiseObs,
             clearedKeys, clearObs>>

\* the record under key, Nil when there is none
RecordAt(store, key) == IF key \in DOMAIN store THEN store[key] ELSE Nil

\* the children of the Subscribe calls under parentAlertType that returned
RECURSIVE ChildrenOf(_, _)
ChildrenOf(subs, parentAlertType) ==
    IF subs = <<>> THEN <<>>
    ELSE IF Head(subs)[1] = parentAlertType
    THEN <<Head(subs)[2]>> \o ChildrenOf(Tail(subs), parentAlertType)
    ELSE ChildrenOf(Tail(subs), parentAlertType)

NoOwn == [allocs |-> 0, creates |-> 0]

\* the history of a step of caller p
Observe(p) ==
    LET called == pc[p] = "idle" /\ pc'[p] = "raise"
        returned == pc[p] = "raise" /\ pc'[p] = "idle"
        put == pc[p] = "subscribePut"
        madeNow == IF pc[p] = "raise" /\ raised' # raised
                   THEN Append(made[p],
                               [Resource |-> Top(stack[p]).a.Resource,
                                AlertType |-> Top(stack[p]).a.AlertType])
                   ELSE made[p]
        outer == pc[p] = "raise" /\ Len(stack[p]) = 1
        ownNow == [allocs |-> own[p].allocs
                       + (IF outer /\ assigned' # assigned THEN 1 ELSE 0),
                   creates |-> own[p].creates
                       + (IF outer /\ raised' # raised THEN 1 ELSE 0)]
    IN /\ subscribed' =
              IF put
              THEN Append(subscribed,
                          <<local[p].parentAlertType,
                            local[p].subscriptions[
                                Len(local[p].subscriptions)]>>)
              ELSE subscribed
       /\ lostAppend' =
              IF put /\ kvSubs[local[p].parentAlertType]
                           # Front(local[p].subscriptions)
              THEN lostAppend \cup {local[p].parentAlertType}
              ELSE lostAppend
       /\ expect' =
              IF called
              THEN [expect EXCEPT ![p] =
                       ChildrenOf(subscribed, stack'[p][1].a.AlertType)]
              ELSE IF returned THEN [expect EXCEPT ![p] = <<>>]
              ELSE expect
       /\ made' = IF called \/ returned THEN [made EXCEPT ![p] = <<>>]
                  ELSE [made EXCEPT ![p] = madeNow]
       /\ own' = IF called \/ returned THEN [own EXCEPT ![p] = NoOwn]
                 ELSE [own EXCEPT ![p] = ownNow]
       /\ raiseObs' =
              IF returned
              THEN [op |-> "Raise", err |-> result'.err, a |-> local[p].a,
                    expect |-> expect[p], made |-> madeNow,
                    lost |-> local[p].a.AlertType \in lostAppend,
                    own |-> ownNow, childFailed |-> Len(stack[p]) >= 2]
              ELSE raiseObs
       /\ IF pc[p] = "clearUpdate"
          THEN LET key == local[p].key
                   err == ClearWriteBack(kvAlerts, key, local[p].alert).err
               IN /\ clearObs' = [op |-> "Clear", key |-> key, err |-> err,
                                  before |-> RecordAt(kvAlerts, key),
                                  after |-> RecordAt(kvAlerts', key),
                                  existed |-> key \in DOMAIN kvAlerts,
                                  again |-> key \in clearedKeys]
                  /\ clearedKeys' = IF err = Nil
                                    THEN clearedKeys \cup {key}
                                    ELSE clearedKeys
          ELSE UNCHANGED <<clearedKeys, clearObs>>

ObsInit ==
    /\ subscribed = <<>>
    /\ lostAppend = {}
    /\ expect = [p \in Procs |-> <<>>]
    /\ made = [p \in Procs |-> <<>>]
    /\ own = [p \in Procs |-> NoOwn]
    /\ raiseObs = [op |-> "none", err |-> Nil, a |-> Nil, expect |-> <<>>,
                   made |-> <<>>, lost |-> FALSE, own |-> NoOwn,
                   childFailed |-> FALSE]
    /\ clearedKeys = {}
    /\ clearObs = [op |-> "none", key |-> Nil, err |-> Nil, before |-> Nil,
                   after |-> Nil, existed |-> FALSE, again |-> FALSE]

LifeNext ==
    \E p \in Procs :
        /\ \/ AlertStep(p)
           \/ \E filter \in EnumFilters : Enumerate(p, filter)
           \/ EnumerateScan(p)
        /\ Observe(p)

\* ------------------------------------------------------------------------
\* Cluster state store (src/cluster/database.go)
\* ------------------------------------------------------------------------
MaxWrites == 3

\* api.Status values and node identifiers used by the model
Statuses == {"STATUS_INIT", "STATUS_OK"}
NodeIds == {"n1"}

\* a nil Go map, and the JSON null it is marshalled to
NilMap == {"<nil map>"}
JsonNull == {"null"}

\* ClusterInfo values passed to writeClusterInfo: Status and NodeEntries
\* (the node identifiers that have an entry, or a nil map)
ClusterInfos ==
    [Status : Statuses, NodeEntries : {NilMap} \cup SUBSET NodeIds]

\* a default descriptor whose map was never made
DefaultClusterInfoNilMap == [Status |-> "STATUS_INIT", NodeEntries |-> NilMap]

\* the value every read starts from: Status_STATUS_INIT and an empty map
DefaultClusterInfo == [Status |-> "STATUS_INIT", NodeEntries |-> {}]

\* the bytes "{}": a JSON object without fields
EmptyObjectBytes == [fields |-> {}, Status |-> "", NodeEntries |-> {}]

\* json.Marshal(db): a JSON object with both fields, a nil map as null
Marshal(db) ==
    [fields |-> {"Status", "NodeEntries"},
     Status |-> db.Status,
     NodeEntries |-> IF db.NodeEntries = NilMap THEN JsonNull
                     ELSE db.NodeEntries]

\* json.Unmarshal(bytes, &db): fields present in the object overwrite db,
\* a null leaves the map alone and an object is merged into the map
Unmarshal(bytes, db) ==
    [Status |-> IF "Status" \in bytes.fields THEN bytes.Status
                ELSE db.Status,
     NodeEntries |-> IF "NodeEntries" \in bytes.fields
                        /\ bytes.NodeEntries # JsonNull
                     THEN (IF db.NodeEntries = NilMap THEN {}
                           ELSE db.NodeEntries) \cup bytes.NodeEntries
                     ELSE db.NodeEntries]

\* the handling of a stored value shared by readClusterInfo and
\* snapAndReadClusterInfo; value is << >> when the key is not found
DecodeClusterInfo(value) ==
    IF value = <<>> \/ value[1] = EmptyObjectBytes
    THEN DefaultClusterInfo
    ELSE Unmarshal(value[1], DefaultClusterInfo)

VARIABLES
    cKV,        \* value stored at cluster/database, << >> when absent
    cLog,       \* the mutations of the store, in commit order
    sPc,        \* position of the snapAndReadClusterInfo call
    sSnap,      \* the snapshot: the value of the key when it was taken
    sVersion,   \* the version returned by kv.Snapshot
    sAnchor,    \* the version the updates collector is anchored at
    sInfo,      \* ClusterInitState.ClusterInfo
    sGap,       \* history: mutations committed between Snapshot and the
                \* start of the collector
    cRead       \* what the last readClusterInfo call found stored and
                \* what it returned

clusterVars == <<cKV, cLog, sPc, sSnap, sVersion, sAnchor, sInfo, sGap,
                 cRead>>

\* the version of the store: the index the next mutation will carry
KvVersion == Len(cLog) + 1

\* readClusterInfo
readClusterInfo == DecodeClusterInfo(cKV)

\* the error of readClusterInfo: none for an absent key and for "{}", else
\* that of json.Unmarshal, which fails on a Status that is not a number
readClusterInfoErr(value) ==
    IF value = <<>> \/ value[1] = EmptyObjectBytes THEN Nil
    ELSE IF value[1].Status \in Statuses THEN Nil
    ELSE "json: cannot unmarshal"

\* a call of readClusterInfo
ReadClusterInfo ==
    /\ cRead' = [op |-> "readClusterInfo", value |-> cKV,
                 db |-> readClusterInfo, err |-> readClusterInfoErr(cKV)]
    /\ UNCHANGED <<cKV, cLog, sPc, sSnap, sVersion, sAnchor, sInfo, sGap>>

\* writeClusterInfo: json.Marshal and kvdb.Put(ClusterDBKey, b, 0)
writeClusterInfo(db) ==
    /\ Len(cLog) < MaxWrites
    /\ cKV' = <<Marshal(db)>>
    /\ cLog' = Append(cLog, Marshal(db))
    /\ sGap' = IF sPc = "collector" THEN sGap + 1 ELSE sGap
    /\ UNCHANGED <<sPc, sSnap, sVersion, sAnchor, sInfo, cRead>>

\* snapAndReadClusterInfo: kv.Snapshot("")
SnapTake ==
    /\ sPc = "idle"
    /\ sSnap' = cKV
    /\ sVersion' = KvVersion
    /\ sPc' = "collector"
    /\ UNCHANGED <<cKV, cLog, sAnchor, sInfo, sGap, cRead>>

\* a collector anchored at the version of the store when it is started
CollectorAnchorNow(version) == KvVersion

\* kvdb.NewUpdatesCollector(kv, "", version): the anchor of the collector
CollectorAnchor(version) == version

\* snapAndReadClusterInfo: kvdb.NewUpdatesCollector(kv, "", version)
SnapCollect ==
    /\ sPc = "collector"
    /\ sAnchor' = CollectorAnchor(sVersion)
    /\ sPc' = "get"
    /\ UNCHANGED <<cKV, cLog, sSnap, sVersion, sInfo, sGap, cRead>>

\* snapAndReadClusterInfo: snap.Get(ClusterDBKey) and the decoding
SnapDecode ==
    /\ sPc = "get"
    /\ sInfo' = DecodeClusterInfo(sSnap)
    /\ sPc' = "done"
    /\ UNCHANGED <<cKV, cLog, sSnap, sVersion, sAnchor, sGap, cRead>>

\* the mutations buffered by the collector: every mutation at or after the
\* version it is anchored at
CollectorBuffer == SubSeq(cLog, sAnchor, Len(cLog))

\* the caller applies the buffered mutations, in order, to the descriptor
RECURSIVE ApplyUpdates(_, _)
ApplyUpdates(db, updates) ==
    IF updates = <<>> THEN db
    ELSE ApplyUpdates(DecodeClusterInfo(<<Head(updates)>>), Tail(updates))

ClusterInit ==
    /\ cKV \in {<<>>, <<EmptyObjectBytes>>}
    /\ cLog = <<>>
    /\ sPc = "idle"
    /\ sSnap = <<>>
    /\ sVersion = 0
    /\ sAnchor = 0
    /\ sInfo = DefaultClusterInfo
    /\ sGap = 0
    /\ cRead = [op |-> "none", value |-> <<>>, db |-> DefaultClusterInfo,
                err |-> Nil]

ClusterNext ==
    \/ \E db \in ClusterInfos : writeClusterInfo(db)
    \/ SnapTake
    \/ SnapCollect
    \/ SnapDecode
    \/ ReadClusterInfo

\* ------------------------------------------------------------------------
\* Watch subsystem (KvAlert.Watch, kvdbWatch, subscribeWatch)
\* ------------------------------------------------------------------------
\* One Watch call on one cluster.  The store invokes kvdbWatch for every
\* mutation under alert/ (written by this node or by another node of the
\* cluster) and for every error of a tree-watch, at any time while a
\* tree-watch is subscribed.  When kvdbWatch returns an error the store may
\* end the tree-watch the event came from or keep delivering on it.
MaxDeliveries == 8
MaxCallbacks == 2

watchRetries == 5
\* the number of counted errors after which kvdbWatch stops resubscribing
maxWatchErrors == 5

ErrBootstrap == "Failed to bootstrap watch"
ErrWatch == "Failed to watch"

\* kvdb.KVAction values of a delivered mutation (KVGet stands for every
\* action that is not create, set or delete)
KVActions == {"KVCreate", "KVSet", "KVDelete", "KVGet"}

subscriptionsKey == "subscriptions"
nextAlertIDKey == "nextAlertId"
bootstrap == "bootstrap"

\* A key as the store reports it in kvp.Key: the pieces of its path, and
\* the decimal digits it ends with (<< >> when it ends with a path piece).
\* getNextAlertIDKey()
getNextAlertIDKey == [path |-> <<alertKey, nextAlertIDKey>>, id |-> <<>>]

\* getSubscriptionsKey(alertType)
getSubscriptionsKey(alertType) ==
    [path |-> <<alertKey, subscriptionsKey, "/">>, id |-> FormatInt(alertType)]

\* Watch: alertKey + bootstrap
BootstrapKey == [path |-> <<alertKey, bootstrap>>, id |-> <<>>]

\* the key of an alert record, getResourceKey(resourceType) + the identifier
WatchedKey(recordKey) == [path |-> recordKey[1], id |-> recordKey[2]]

\* the key argument of the no-op notification: ""
EmptyKey == [path |-> <<>>, id |-> <<>>]

\* strings.HasSuffix(key, piece) for a piece that holds no digit
HasSuffix(key, piece) ==
    /\ key.id = <<>>
    /\ key.path # <<>>
    /\ key.path[Len(key.path)] = piece

\* strings.Contains(key, piece) for a piece that holds no digit
Contains(key, piece) == \E i \in 1..Len(key.path) : key.path[i] = piece

\* a filter that lets the subscription lists through
IsIgnoredKeyCounterOnly(key) == HasSuffix(key, nextAlertIDKey)

\* kvdbWatch: HasSuffix(kvp.Key, nextAlertIDKey) ||
\* Contains(kvp.Key, subscriptionsKey)
IsIgnoredKey(key) ==
    HasSuffix(key, nextAlertIDKey) \/ Contains(key, subscriptionsKey)

\* kvp.Value: whether json.Unmarshal decodes it as an api.Alert, and the
\* alert it decodes to
NoAlert == [decodes |-> FALSE, alert |-> <<>>]
AlertValue(a) == [decodes |-> TRUE, alert |-> <<a>>]

\* the record the store reports in the watch model
SampleAlert ==
    [Resource |-> "VOLUME", AlertType |-> 7, Severity |-> 3, Id |-> 0,
     Cleared |-> FALSE]

\* the mutations of the keys that hold no alert record: the writes of the
\* bootstrap key, and the writes and deletions of the counter and of a
\* subscription list (by this node or by another user of the store)
OtherEvents ==
    [key : {BootstrapKey}, action : {"KVCreate", "KVSet"}, value : {NoAlert}]
        \cup [key : {getNextAlertIDKey, getSubscriptionsKey(7)},
              action : {"KVSet", "KVDelete"}, value : {NoAlert}]

\* the mutations the store delivers in the watch model: those, and any
\* action on a record with a value that decodes or not
WatchEvents ==
    OtherEvents
        \cup [key : {WatchedKey(AlertRecordKey("VOLUME", 0))},
              action : KVActions,
              value : {NoAlert, AlertValue(SampleAlert)}]

\* a dispatch that reports every write as a creation
AlertActionAlwaysCreate(action) ==
    IF action = "KVDelete" THEN "ALERT_ACTION_TYPE_DELETE"
    ELSE "ALERT_ACTION_TYPE_CREATE"

\* kvdbWatch: the tag of the invocation for kvp.Action
AlertActionOf(action) ==
    IF action = "KVDelete" THEN "ALERT_ACTION_TYPE_DELETE"
    ELSE IF action = "KVCreate" THEN "ALERT_ACTION_TYPE_CREATE"
    ELSE "ALERT_ACTION_TYPE_UPDATE"

\* kvdbWatch: whether the mutation e, of a key that is not ignored, reaches
\* the registered callback
Invoked(e) ==
    \/ e.action = "KVDelete"
    \/ e.value.decodes /\ e.action \in {"KVCreate", "KVSet"}

VARIABLES
    watcherMap,   \* watcherMap[clusterID]: "none" or "installed"
    wStatus,      \* the watcher's status
    watchErrors,  \* the global error counter
    watchTrees,   \* number of tree-watches subscribed at the store
    wPc,          \* position of the Watch call
    retries,      \* local variable retries of Watch
    wResult,      \* what Watch returned
    cbLog,        \* invocations of the registered callback, in order
    puts,         \* history: bootstrap writes made by Watch
    delivered,    \* history: number of kvdbWatch invocations
    errFirst,     \* history: status became Error while Watch was running
    run           \* history: errors delivered and no-op notifications made
                  \* since the watcher was last Ready with watchErrors = 0
                  \* (errs = -1 when it never was)
VARIABLE
    resubs        \* history: errors delivered to the watcher in status
                  \* Ready, and subscribeWatch calls they made, since the
                  \* last mutation that was not ignored

watchVars == <<watcherMap, wStatus, watchErrors, watchTrees, wPc, retries,
               wResult, cbLog, puts, delivered, errFirst, run, resubs>>

NoResubs == [errs |-> 0, subs |-> 0]

NoRun == [errs |-> -1, none |-> 0]
NewRun == [errs |-> 0, none |-> 0]

\* Watch: getKvdbForCluster, the new watcher in status watchBootstrap and
\* its installation in watcherMap
WatchInstall ==
    /\ wPc = "idle"
    /\ watcherMap' = "installed"
    /\ wStatus' = "watchBootstrap"
    /\ wPc' = "subscribe"
    /\ UNCHANGED <<watchErrors, watchTrees, retries, wResult, cbLog, puts,
                   delivered, errFirst, run, resubs>>

\* subscribeWatch: kv.WatchTree(alertKey, 0, nil, w.kvcb)
subscribeWatch == watchTrees + 1

\* Watch: subscribeWatch(watcherKey)
WatchSubscribe ==
    /\ wPc = "subscribe"
    /\ watchTrees' = subscribeWatch
    /\ wPc' = "loop"
    /\ UNCHANGED <<watcherMap, wStatus, watchErrors, retries, wResult, cbLog,
                   puts, delivered, errFirst, run, resubs>>

\* Watch: the loop condition alertWatcher.status == watchBootstrap
WatchLoop ==
    /\ wPc = "loop"
    /\ wPc' = IF wStatus = "watchBootstrap" THEN "put" ELSE "final"
    /\ UNCHANGED <<watcherMap, wStatus, watchErrors, watchTrees, retries,
                   wResult, cbLog, puts, delivered, errFirst, run, resubs>>

\* Watch: kv.Put(alertKey+bootstrap, time.Now(), 0)
WatchPut ==
    /\ wPc = "put"
    /\ puts' = puts + 1
    /\ wPc' = "check"
    /\ UNCHANGED <<watcherMap, wStatus, watchErrors, watchTrees, retries,
                   wResult, cbLog, delivered, errFirst, run, resubs>>

\* Watch: if still watchBootstrap, count the retry and sleep
WatchCheck ==
    /\ wPc = "check"
    /\ retries' = IF wStatus = "watchBootstrap" THEN retries + 1 ELSE retries
    /\ wPc' = "budget"
    /\ UNCHANGED <<watcherMap, wStatus, watchErrors, watchTrees, wResult,
                   cbLog, puts, delivered, errFirst, run, resubs>>

\* a retry budget that is exhausted one retry late
RetriesExhaustedLate(n) == n = watchRetries + 1

\* Watch: retries == watchRetries
RetriesExhausted(n) == n = watchRetries

\* Watch: after the sleep, give up when the retry budget is exhausted
WatchBudget ==
    /\ wPc = "budget"
    /\ IF RetriesExhausted(retries)
       THEN /\ wPc' = "done"
            /\ wResult' = ErrBootstrap
       ELSE /\ wPc' = "loop"
            /\ UNCHANGED wResult
    /\ UNCHANGED <<watcherMap, wStatus, watchErrors, watchTrees, retries,
                   cbLog, puts, delivered, errFirst, run, resubs>>

\* Watch: after the loop, alertWatcher.status != watchReady
WatchFinal ==
    /\ wPc = "final"
    /\ wPc' = "done"
    /\ wResult' = IF wStatus # "watchReady" THEN ErrWatch ELSE Nil
    /\ UNCHANGED <<watcherMap, wStatus, watchErrors, watchTrees, retries,
                   cbLog, puts, delivered, errFirst, run, resubs>>

\* the store invokes kvdbWatch
CanDeliver ==
    /\ watchTrees > 0
    /\ watcherMap = "installed"
    /\ delivered < MaxDeliveries

\* the history `run` after a delivery that leaves the watcher in status st
\* with error counter n
RunAfter(r, st, n) ==
    IF r.errs = -1 /\ st = "watchReady" /\ n = 0 THEN NewRun ELSE r

\* kvdbWatch: a mutation of the bootstrap key
DeliverBootstrap(e) ==
    /\ CanDeliver
    /\ HasSuffix(e.key, bootstrap)
    /\ delivered' = delivered + 1
    /\ wStatus' = "watchReady"
    /\ run' = RunAfter(run, "watchReady", watchErrors)
    /\ UNCHANGED <<watcherMap, watchErrors, watchTrees, wPc, retries,
                   wResult, cbLog, puts, errFirst, resubs>>

\* an error that is not counted
CountErrorNever(n) == n

\* kvdbWatch: watchErrors++
CountError(n) == n + 1

\* kvdbWatch gives up at one counted error less
TooManyErrorsEarly(n) == n = maxWatchErrors - 1

\* kvdbWatch: watchErrors == 5
TooManyErrors(n) == n = maxWatchErrors

NoneNotification ==
    [alert |-> <<>>, action |-> "ALERT_ACTION_TYPE_NONE", key |-> EmptyKey]

\* kvdbWatch: an error of the tree-watch; ends says whether the store ends
\* the tree-watch after kvdbWatch returned the error
DeliverError(ends) ==
    /\ CanDeliver
    /\ delivered' = delivered + 1
    /\ IF wStatus = "watchBootstrap"
       THEN /\ wStatus' = "watchError"
            /\ errFirst' = (wPc # "done")
            /\ watchTrees' = IF ends THEN watchTrees - 1 ELSE watchTrees
            /\ UNCHANGED <<watchErrors, cbLog, run, resubs>>
       ELSE IF TooManyErrors(watchErrors)
       THEN /\ Len(cbLog) < MaxCallbacks
            /\ cbLog' = Append(cbLog, NoneNotification)
            /\ run' = IF run.errs = -1 THEN run
                      ELSE [errs |-> run.errs + 1, none |-> run.none + 1]
            /\ watchTrees' = IF ends THEN watchTrees - 1 ELSE watchTrees
            /\ resubs' = IF wStatus = "watchReady"
                         THEN [resubs EXCEPT !.errs = @ + 1]
                         ELSE resubs
            /\ UNCHANGED <<wStatus, watchErrors, errFirst>>
       ELSE /\ watchErrors' = CountError(watchErrors)
            /\ resubs' = IF wStatus = "watchReady"
                         THEN [errs |-> resubs.errs + 1,
                               subs |-> resubs.subs + 1]
                         ELSE resubs
            /\ watchTrees' = IF ends THEN subscribeWatch - 1
                             ELSE subscribeWatch
            /\ run' = IF run.errs = -1 THEN run
                      ELSE [run EXCEPT !.errs = @ + 1]
            /\ UNCHANGED <<wStatus, cbLog, errFirst>>
    /\ UNCHANGED <<watcherMap, wPc, retries, wResult, puts>>

\* kvdbWatch: a mutation of the identifier counter or of a subscription list
DeliverIgnored(e) ==
    /\ CanDeliver
    /\ ~HasSuffix(e.key, bootstrap)
    /\ IsIgnoredKey(e.key)
    /\ delivered' = delivered + 1
    /\ UNCHANGED <<watcherMap, wStatus, watchErrors, watchTrees, wPc, retries,
                   wResult, cbLog, puts, errFirst, run, resubs>>

\* kvdbWatch: a mutation e of another key under alert/; cbErr says whether
\* the registered callback returns an error, ends whether the store ends the
\* tree-watch when kvdbWatch returns an error
DeliverMutation(e, cbErr, ends) ==
    /\ CanDeliver
    /\ ~HasSuffix(e.key, bootstrap)
    /\ ~IsIgnoredKey(e.key)
    /\ delivered' = delivered + 1
    /\ watchErrors' = 0
    /\ run' = IF wStatus = "watchReady" THEN NewRun ELSE NoRun
    /\ resubs' = NoResubs
    /\ LET entry == [alert |-> IF e.action = "KVDelete" THEN <<>>
                               ELSE e.value.alert,
                     action |-> AlertActionOf(e.action),
                     key |-> e.key]
           err == IF Invoked(e) THEN cbErr ELSE TRUE IN
       /\ ~Invoked(e) => ~cbErr
       /\ cbLog' = IF Invoked(e) THEN Append(cbLog, entry) ELSE cbLog
       /\ ends => err
       /\ watchTrees' = IF ends THEN watchTrees - 1 ELSE watchTrees
    /\ UNCHANGED <<watcherMap, wStatus, wPc, retries, wResult, puts,
                   errFirst>>

WatchInit ==
    /\ watcherMap = "none"
    /\ wStatus = "none"
    /\ watchErrors = 0
    /\ watchTrees = 0
    /\ wPc = "idle"
    /\ retries = 0
    /\ wResult = "none"
    /\ cbLog = <<>>
    /\ puts = 0
    /\ delivered = 0
    /\ errFirst = FALSE
    /\ run = NoRun
    /\ resubs = NoResubs

WatchNext ==
    \/ WatchInstall
    \/ WatchSubscribe
    \/ WatchLoop
    \/ WatchPut
    \/ WatchCheck
    \/ WatchBudget
    \/ WatchFinal
    \/ \E e \in WatchEvents : DeliverBootstrap(e)
    \/ \E ends \in BOOLEAN : DeliverError(ends)
    \/ \E e \in WatchEvents : DeliverIgnored(e)
    \/ \E e \in WatchEvents, cbErr, ends \in BOOLEAN :
          /\ Invoked(e) => Len(cbLog) < MaxCallbacks
          /\ DeliverMutation(e, cbErr, ends)

\* ------------------------------------------------------------------------
\* The alert store watched by a Ready watcher
\* ------------------------------------------------------------------------
\* The callers of the alert store run while a watcher is Ready.  The store
\* delivers every mutation of a key under alert/ to kvdbWatch, once and in
\* commit order, and no error.  Other users of the store write or delete
\* the keys that hold no alert record.
MaxForeign == 1

VARIABLES
    kvLog,    \* the mutations of the keys under alert/, in commit order, each
              \* with the operation that made it (op, history)
    kvSeen    \* the number of them delivered to kvdbWatch

busVars == <<kvLog, kvSeen>>

BusScenario ==
    [Raise |-> 1, Subscribe |-> MaxSubs, Clear |-> MaxClear,
     Erase |-> MaxErase, Retrieve |-> 0, Enumerate |-> 0]

\* the watch state after a Watch call that made one bootstrap write, was
\* delivered it and returned nil
WatchReady ==
    /\ watcherMap = "installed"
    /\ wStatus = "watchReady"
    /\ watchErrors = 0
    /\ watchTrees = 1
    /\ wPc = "done"
    /\ retries = 0
    /\ wResult = Nil
    /\ cbLog = <<>>
    /\ puts = 1
    /\ delivered = 1
    /\ errFirst = FALSE
    /\ run = NewRun
    /\ resubs = NoResubs

Mutation(key, action, value, op) ==
    [key |-> key, action |-> action, value |-> value, op |-> op]

\* the mutation the store commits in a step of caller p: the counter write
\* of getNextIDFromKVDB (Create or CompareAndSet), the Create of raise, the
\* Put of Subscribe, the Update of clear and the Delete of Erase
StepMutations(p) ==
    IF kvCounter' # kvCounter
    THEN <<Mutation(getNextAlertIDKey,
                    IF kvCounter = <<>> THEN "KVCreate" ELSE "KVSet",
                    NoAlert, "getNextID")>>
    ELSE IF DOMAIN kvAlerts' \ DOMAIN kvAlerts # {}
    THEN LET k == CHOOSE j \in DOMAIN kvAlerts' : j \notin DOMAIN kvAlerts
         IN <<Mutation(WatchedKey(k), "KVCreate", AlertValue(kvAlerts'[k]),
                       "Raise")>>
    ELSE IF pc[p] = "subscribePut"
    THEN <<Mutation(getSubscriptionsKey(local[p].parentAlertType), "KVSet",
                    NoAlert, "Subscribe")>>
    ELSE IF pc[p] = "clearUpdate" /\ local[p].key \in DOMAIN kvAlerts
    THEN <<Mutation(WatchedKey(local[p].key), "KVSet",
                    AlertValue(kvAlerts'[local[p].key]), "Clear")>>
    ELSE IF DOMAIN kvAlerts \ DOMAIN kvAlerts' # {}
    THEN LET k == CHOOSE j \in DOMAIN kvAlerts : j \notin DOMAIN kvAlerts'
         IN <<Mutation(WatchedKey(k), "KVDelete", NoAlert, "Erase")>>
    ELSE <<>>

\* a step of a caller of the alert store
BusStep(p) ==
    /\ AlertWriteStep(p)
    /\ kvLog' = kvLog \o StepMutations(p)
    /\ UNCHANGED <<kvSeen, obsVars, watchVars>>

\* another user of the store writes or deletes a key that holds no record
ForeignMutation(e) ==
    /\ Cardinality({i \in 1..Len(kvLog) : kvLog[i].op = "other"})
          < MaxForeign
    /\ kvLog' = Append(kvLog, Mutation(e.key, e.action, e.value, "other"))
    /\ UNCHANGED <<kvSeen, alertVars, obsVars, watchVars>>

\* the store delivers the next mutation to kvdbWatch (the value the
\* registered callback returns goes back to the store and changes nothing
\* in kvdbWatch)
BusDeliver ==
    /\ kvSeen < Len(kvLog)
    /\ kvSeen' = kvSeen + 1
    /\ LET e == kvLog[kvSeen + 1] IN
          \/ DeliverBootstrap(e)
          \/ DeliverIgnored(e)
          \/ DeliverMutation(e, FALSE, FALSE)
    /\ UNCHANGED <<kvLog, alertVars, obsVars>>

BusInit ==
    /\ AlertStart(BusScenario)
    /\ ObsInit
    /\ WatchReady
    /\ kvLog = <<>>
    /\ kvSeen = 0

BusNext ==
    \/ \E p \in Procs : BusStep(p)
    \/ \E e \in OtherEvents : ForeignMutation(e)
    \/ BusDeliver

\* ------------------------------------------------------------------------
\* Locks and registries (lock of alert.go, kvdbLock, kvdbMap, watcherMap)
\* ------------------------------------------------------------------------
\* Every caller p calls Watch once, on the cluster p.  The store runs
\* kvdbWatch on the threads of Callbacks while a tree-watch is subscribed,
\* and the threads of Getters call GetKvdbInstance.  An access to a map is
\* in progress while the thread is at the position named after it.
Callbacks == {NumProcs + 1, NumProcs + 2}
Getters == {NumProcs + 3}
Threads == Procs \cup Callbacks \cup Getters
\* the holder of a lock that is free
NoThread == 0

VARIABLES
    lock,         \* the RWMutex of alert.go: the thread that holds it
    kvdbLock,     \* the RWMutex kvdbLock: its writer and its readers
    kvdbMap,      \* the clusters with a cached instance
    watchers,     \* the keys of watcherMap
    trees,        \* the number of tree-watches subscribed
    tPc           \* the position of every thread

lockVars == <<lock, kvdbLock, kvdbMap, watchers, trees, tPc>>

At(t, pos) == tPc' = [tPc EXCEPT ![t] = pos]

\* Watch, getKvdbForCluster: kvdbLock.Lock()
WatchLockKvdb(p) ==
    /\ tPc[p] = "idle"
    /\ kvdbLock.writer = NoThread
    /\ kvdbLock.readers = {}
    /\ kvdbLock' = [kvdbLock EXCEPT !.writer = p]
    /\ At(p, "kvdbMapWrite")
    /\ UNCHANGED <<lock, kvdbMap, watchers, trees>>

\* getKvdbForCluster: the lookup and the caching of the instance, and the
\* deferred kvdbLock.Unlock()
WatchCacheKvdb(p) ==
    /\ tPc[p] = "kvdbMapWrite"
    /\ kvdbMap' = kvdbMap \cup {p}
    /\ kvdbLock' = [kvdbLock EXCEPT !.writer = NoThread]
    /\ At(p, "install")
    /\ UNCHANGED <<lock, watchers, trees>>

\* Watch: watcherMap[watcherKey] = alertWatcher begins
WatchMapWriteBegin(p) ==
    /\ tPc[p] = "install"
    /\ At(p, "watcherMapWrite")
    /\ UNCHANGED <<lock, kvdbLock, kvdbMap, watchers, trees>>

\* Watch: watcherMap[watcherKey] = alertWatcher ends
WatchMapWriteEnd(p) ==
    /\ tPc[p] = "watcherMapWrite"
    /\ watchers' = watchers \cup {p}
    /\ At(p, "subscribe")
    /\ UNCHANGED <<lock, kvdbLock, kvdbMap, trees>>

\* subscribeWatch called by Watch: w, ok := watcherMap[key] begins
WatchMapReadBegin(p) ==
    /\ tPc[p] = "subscribe"
    /\ At(p, "watcherMapRead")
    /\ UNCHANGED <<lock, kvdbLock, kvdbMap, watchers, trees>>

\* subscribeWatch called by Watch: the lookup ends, kv.WatchTree
WatchMapReadEnd(p) ==
    /\ tPc[p] = "watcherMapRead"
    /\ trees' = trees + 1
    /\ At(p, "done")
    /\ UNCHANGED <<lock, kvdbLock, kvdbMap, watchers>>

\* kvdbWatch: lock.Lock(), then w := watcherMap[watcherKey] begins
CallbackLock(t) ==
    /\ tPc[t] = "idle"
    /\ trees > 0
    /\ lock = NoThread
    /\ lock' = t
    /\ At(t, "watcherMapRead")
    /\ UNCHANGED <<kvdbLock, kvdbMap, watchers, trees>>

\* kvdbWatch: the lookup ends, and the deferred lock.Unlock()
CallbackUnlock(t) ==
    /\ tPc[t] = "watcherMapRead"
    /\ lock' = NoThread
    /\ At(t, "idle")
    /\ UNCHANGED <<kvdbLock, kvdbMap, watchers, trees>>

\* GetKvdbInstance: kvdbLock.RLock(), then kvdbMap[kva.clusterID] begins
GetRLock(t) ==
    /\ tPc[t] = "idle"
    /\ kvdbLock.writer = NoThread
    /\ kvdbLock' = [kvdbLock EXCEPT !.readers = @ \cup {t}]
    /\ At(t, "kvdbMapRead")
    /\ UNCHANGED <<lock, kvdbMap, watchers, trees>>

\* GetKvdbInstance: the lookup ends, and the deferred kvdbLock.RUnlock()
GetRUnlock(t) ==
    /\ tPc[t] = "kvdbMapRead"
    /\ kvdbLock' = [kvdbLock EXCEPT !.readers = @ \ {t}]
    /\ At(t, "idle")
    /\ UNCHANGED <<lock, kvdbMap, watchers, trees>>

LockInit ==
    /\ lock = NoThread
    /\ kvdbLock = [writer |-> NoThread, readers |-> {}]
    /\ kvdbMap = {}
    /\ watchers = {}
    /\ trees = 0
    /\ tPc = [t \in Threads |-> "idle"]

LockNext ==
    \/ \E p \in Procs :
          \/ WatchLockKvdb(p)
          \/ WatchCacheKvdb(p)
          \/ WatchMapWriteBegin(p)
          \/ WatchMapWriteEnd(p)
          \/ WatchMapReadBegin(p)
          \/ WatchMapReadEnd(p)
    \/ \E t \in Callbacks : CallbackLock(t) \/ CallbackUnlock(t)
    \/ \E t \in Getters : GetRLock(t) \/ GetRUnlock(t)

vars == <<alertVars, obsVars, clusterVars, watchVars, busVars, lockVars>>

BusAtRest == kvLog = <<>> /\ kvSeen = 0

\* the alert store, with the cluster state store and the watch at rest
Init ==
    AlertInit /\ ObsInit /\ ClusterInit /\ cKV = <<>> /\ WatchInit /\ BusAtRest
        /\ LockInit
Next ==
    AlertNext
        /\ UNCHANGED <<obsVars, clusterVars, watchVars, busVars, lockVars>>
Spec == Init /\ [][Next]_vars

\* the cluster state store, with the alert store and the watch at rest
InitCluster == ClusterInit /\ AlertInit /\ ObsInit /\ WatchInit /\ BusAtRest
        /\ LockInit
NextCluster ==
    ClusterNext
        /\ UNCHANGED <<alertVars, obsVars, watchVars, busVars, lockVars>>
SpecCluster == InitCluster /\ [][NextCluster]_vars

\* the scenarios of the alert lifecycle, with the cluster state store and
\* the watch at rest
InitLife ==
    LifeInit /\ ObsInit /\ ClusterInit /\ cKV = <<>> /\ WatchInit /\ BusAtRest
        /\ LockInit
NextLife ==
    LifeNext /\ UNCHANGED <<clusterVars, watchVars, busVars, lockVars>>
SpecLife == InitLife /\ [][NextLife]_vars

\* the watch subsystem, with the two stores at rest
InitWatch ==
    WatchInit /\ AlertInit /\ ObsInit /\ ClusterInit /\ cKV = <<>> /\ BusAtRest
        /\ LockInit
NextWatch ==
    WatchNext
        /\ UNCHANGED <<alertVars, obsVars, clusterVars, busVars, lockVars>>
SpecWatch == InitWatch /\ [][NextWatch]_vars

\* the alert store watched by a Ready watcher, with the cluster state store
\* at rest
InitBus == BusInit /\ ClusterInit /\ cKV = <<>> /\ LockInit
NextBus == BusNext /\ UNCHANGED <<clusterVars, lockVars>>
SpecBus == InitBus /\ [][NextBus]_vars

\* the locks and registries, with the stores and the watch at rest
InitLock ==
    LockInit /\ AlertInit /\ ObsInit /\ ClusterInit /\ cKV = <<>> /\ WatchInit
        /\ BusAtRest
NextLock ==
    LockNext
        /\ UNCHANGED <<alertVars, obsVars, clusterVars, watchVars, busVars>>
SpecLock == InitLock /\ [][NextLock]_vars

\* ------------------------------------------------------------------------
\* Properties of the alert store and the identifier allocator
\* ------------------------------------------------------------------------
\* the value of the stored counter, 0 while the key is absent
CounterValue == ParseInt(kvCounter)

\* C1: under every interleaving of the create / read / compare-and-set steps
\* of concurrent Raise calls, the identifiers of the alerts that were
\* successfully raised are pairwise distinct.
C1_RaisedIdsDistinct ==
    \A i, j \in 1..Len(raised) : i # j => raised[i].id # raised[j].id

\* a caller retries after a compare-and-set conflict while another caller's
\* alert has been raised
C1_Witness ==
    /\ Len(raised) >= 1
    /\ \E p \in Procs :
          /\ pc[p] = "raise"
          /\ Top(stack[p]).phase = "read"
          /\ Top(stack[p]).prevValue # <<>>

\* C3: after a successful Erase(resourceType, id) every later Retrieve of
\* the same resourceType and id fails with not-found, whatever Raise,
\* Subscribe or Clear calls are made in between.
C3_ErasedStaysNotFound ==
    \A e \in erased : RetrieveErr(e[1], e[2]) = KvErrNotFound

\* an alert was erased between the read and the write-back of a Clear of it,
\* and a later alert has been raised
C3_Witness ==
    /\ \E p \in Procs, e \in erased :
          /\ pc[p] = "clearUpdate"
          /\ local[p].key = AlertRecordKey(e[1], e[2])
    /\ Len(raised) >= 2

\* C4: the identifiers assigned by Raise are strictly increasing in the
\* order of assignment (so none is assigned twice, not even that of an
\* erased alert); the stored counter is greater than every identifier
\* assigned so far and never decreases.
C4_IdsIncreaseCounterAhead ==
    /\ [](/\ \A i, j \in 1..Len(assigned) : i < j => assigned[i] < assigned[j]
          /\ \A i \in 1..Len(assigned) : CounterValue > assigned[i])
    /\ [][CounterValue' >= CounterValue]_vars

\* an identifier was assigned after the alert holding a smaller one was
\* erased
C4_Witness ==
    /\ Len(assigned) >= 2
    /\ \E e \in erased : assigned[Len(assigned)] > e[2]

\* C10 (as claimed): a Raise of an alert whose resource type is None
\* returns the resource-not-found error and has allocated no identifier and
\* created no record, neither for itself nor for a subscribed child.
C10_NoneRaiseHasNoEffect ==
    (result.op = "Raise" /\ result.resource = "NONE")
        => /\ result.err = ErrResourceNotFound
           /\ result.allocs = 0
           /\ result.creates = 0


\* ------------------------------------------------------------------------
\* Properties of the cluster state store
\* ------------------------------------------------------------------------
\* C2: once snapAndReadClusterInfo has returned, the descriptor decoded from
\* the snapshot with the collector's buffered mutations applied in order is
\* the descriptor readClusterInfo returns, and every write is either in the
\* snapshot or buffered exactly once.
C2_SnapshotPlusUpdatesIsLiveRead ==
    sPc = "done"
        => /\ ApplyUpdates(sInfo, CollectorBuffer) = readClusterInfo
           /\ (sVersion - 1) + Len(CollectorBuffer) = Len(cLog)

\* a write before the snapshot, one between the snapshot and the start of
\* the collector, and one after the call returned
C2_Witness ==
    /\ sPc = "done"
    /\ sVersion > 1
    /\ sGap >= 1
    /\ Len(cLog) >= sVersion + sGap
    /\ ApplyUpdates(sInfo, CollectorBuffer) # sInfo

\* ------------------------------------------------------------------------
\* Properties of the watch subsystem
\* ------------------------------------------------------------------------
\* the callback has received the permanent-failure notification
Notified == \E i \in 1..Len(cbLog) : cbLog[i] = NoneNotification

\* the steps of the Watch call
WatchStep ==
    \/ WatchInstall
    \/ WatchSubscribe
    \/ WatchLoop
    \/ WatchPut
    \/ WatchCheck
    \/ WatchBudget
    \/ WatchFinal

\* the watch subsystem with a Watch call that keeps running
SpecWatchFair == SpecWatch /\ WF_watchVars(WatchStep)

\* C5 (as claimed): starting from a Ready watcher with the error counter at
\* zero, once exactly 5 consecutive errors have been delivered the callback
\* has been invoked exactly once with a null alert and the no-op tag.
C5_NotifiedAtFifthError ==
    run.errs = 5 => run.none = 1

\* C5 (amended): starting from a Ready watcher with the error counter at
\* zero, the callback has not been invoked with a null alert and the no-op
\* tag while at most 5 consecutive errors have been delivered, and has been
\* invoked so exactly once when exactly 6 have been.
C5_NotifiedAtSixthError ==
    /\ (run.errs >= 0 /\ run.errs <= 5) => run.none = 0
    /\ run.errs = 6 => run.none = 1

\* six consecutive errors were delivered to a Ready watcher
C5_Witness ==
    /\ wStatus = "watchReady"
    /\ run.errs = 6
    /\ Notified

\* C6 (as claimed): once the permanent-failure notification has been
\* delivered to the callback, the callback is never invoked again.
C6_SilentAfterNotification ==
    [][Notified => cbLog' = cbLog]_vars

\* C7 (as claimed): Watch returns the bootstrap-timeout error only if the
\* status is Bootstrap at the moment it returns, and returns success
\* whenever the status is Ready at that moment.
C7_TimeoutOnlyWhileBootstrap ==
    [][(wPc # "done" /\ wPc' = "done")
          => /\ wResult' = ErrBootstrap => wStatus' = "watchBootstrap"
             /\ wStatus' = "watchReady" => wResult' = Nil]_vars

C9_ErrorFirstFailsGeneric ==
    (wPc = "done" /\ errFirst) => wResult = ErrWatch

\* ------------------------------------------------------------------------
\* Properties of the alert lifecycle
\* ------------------------------------------------------------------------
\* a record of template c is among the records with templates made
IsMade(c, madeTemplates) ==
    \E i \in 1..Len(madeTemplates) :
        /\ madeTemplates[i].Resource = c.Resource
        /\ madeTemplates[i].AlertType = c.AlertType

\* getAllAlerts on a store that does not change during the call
RECURSIVE getAllAlerts(_, _)
getAllAlerts(store, partitions) ==
    IF partitions = <<>> THEN <<>>
    ELSE getResourceSpecificAlerts(store, Head(partitions))
             \o getAllAlerts(store, Tail(partitions))

\* an Enumerate with Resource = None called now returns a record of
\* template c
IsEnumerated(c) ==
    IsMade(c, FilterSeverity(getAllAlerts(kvAlerts, AllPartitions),
                             [Resource |-> "NONE", Severity |-> 0]))

\* the Raise that returned last has raised its alert and every child that
\* was subscribed under its type when it was called, and an Enumerate of
\* all partitions returns a record of each while nothing has been erased
RaiseCoveredSubscriptions ==
    /\ IsMade(raiseObs.a, raiseObs.made)
    /\ \A i \in 1..Len(raiseObs.expect) :
          IsMade(raiseObs.expect[i], raiseObs.made)
    /\ erased = {}
          => /\ IsEnumerated(raiseObs.a)
             /\ \A i \in 1..Len(raiseObs.expect) :
                   IsEnumerated(raiseObs.expect[i])

\* C11 (as claimed): after Subscribe(parentType, child) has returned, every
\* later successful Raise of an alert of type parentType creates a record
\* of the alert and one of the child, and a following Enumerate with
\* Resource = None returns both.
C11_SubscribedChildRaised ==
    (raiseObs.op = "Raise" /\ raiseObs.err = Nil)
        => RaiseCoveredSubscriptions

\* C11 (amended): the same, provided no Subscribe of parentType has written
\* its list after reading an older one (concurrent Subscribe calls are
\* last-writer-wins and one append can be lost).
C11_SubscribedChildRaisedUnlessLost ==
    (raiseObs.op = "Raise" /\ raiseObs.err = Nil /\ ~raiseObs.lost)
        => RaiseCoveredSubscriptions

\* a Raise succeeded after a Subscribe under its type, and an Enumerate of
\* all partitions returned the two records
C11_Witness ==
    /\ raiseObs.op = "Raise"
    /\ raiseObs.err = Nil
    /\ ~raiseObs.lost
    /\ Len(raiseObs.expect) >= 1
    /\ enumResult.op = "Enumerate"
    /\ enumResult.filter.Resource = "NONE"
    /\ enumResult.err = Nil
    /\ Len(enumResult.alerts) >= 2

\* C12: Clear is idempotent: a Clear of a record that exists and that an
\* earlier successful Clear has written back succeeds and leaves the record
\* with Cleared = true, equal to the record the earlier Clear left.
C12_ClearIdempotent ==
    (clearObs.op = "Clear" /\ clearObs.again /\ clearObs.existed)
        => /\ clearObs.err = Nil
           /\ clearObs.after = clearObs.before
           /\ clearObs.after.Cleared

\* a second Clear of the same record has returned
C12_Witness ==
    /\ clearObs.op = "Clear"
    /\ clearObs.again
    /\ clearObs.existed
    /\ clearObs.err = Nil

\* the records of the partition of resourceType in a store
PartitionRecords(store, resourceType) ==
    {store[k] : k \in {j \in DOMAIN store :
                          j[1] = getResourceKey(resourceType)}}

\* the records of the partitions an Enumerate with the filter selects
SelectedRecords(store, filter) ==
    IF filter.Resource # "NONE"
    THEN PartitionRecords(store, filter.Resource)
    ELSE UNION {PartitionRecords(store, resourceType) :
                   resourceType \in {"NODE", "VOLUME", "CLUSTER", "DRIVE"}}

\* the list alerts holds exactly the records of the set, each once
HoldsExactly(alerts, records) ==
    /\ {alerts[i] : i \in 1..Len(alerts)} = records
    /\ Len(alerts) = Cardinality(records)

C14_EnumerateSeverityAtMost ==
    (/\ enumResult.op = "Enumerate"
     /\ enumResult.filter.Severity # 0
     /\ enumResult.quiet)
        => HoldsExactly(enumResult.alerts,
               {r \in SelectedRecords(enumResult.store, enumResult.filter) :
                   r.Severity <= enumResult.filter.Severity})

\* an Enumerate with a severity filter returned a record of the severity of
\* the filter and left out a record of a greater severity
C14_Witness ==
    /\ enumResult.op = "Enumerate"
    /\ enumResult.filter.Severity # 0
    /\ enumResult.quiet
    /\ \E i \in 1..Len(enumResult.alerts) :
          enumResult.alerts[i].Severity = enumResult.filter.Severity
    /\ \E r \in SelectedRecords(enumResult.store, enumResult.filter) :
          r.Severity > enumResult.filter.Severity

\* ------------------------------------------------------------------------
\* Properties of the cluster state store (continued)
\* ------------------------------------------------------------------------
\* C15: readClusterInfo returns, with no error, the descriptor with
\* Status = Init and an empty node mapping whenever it finds the cluster key
\* absent or holding exactly the empty object {}.
C15_DefaultWhenAbsentOrEmpty ==
    (/\ cRead.op = "readClusterInfo"
     /\ (cRead.value = <<>> \/ cRead.value = <<EmptyObjectBytes>>))
        => /\ cRead.err = Nil
           /\ cRead.db.Status = "STATUS_INIT"
           /\ cRead.db.NodeEntries = {}

\* readClusterInfo has found the empty object after a snapshot read
C15_Witness ==
    /\ cRead.op = "readClusterInfo"
    /\ cRead.value = <<EmptyObjectBytes>>
    /\ cRead.err = Nil
    /\ sPc = "done"

\* ------------------------------------------------------------------------
\* Properties of the watch subsystem (continued)
\* ------------------------------------------------------------------------
\* C16: the status of the watcher changes only from Bootstrap to Ready or
\* from Bootstrap to Error, and only in an invocation of kvdbWatch; once it
\* is Ready or Error it never changes again.  (The step that creates the
\* watcher in status Bootstrap is not a change of its status.)
C16_StatusSetOnce ==
    [][wStatus' # wStatus
          => \/ wStatus = "none" /\ wStatus' = "watchBootstrap"
             \/ /\ wStatus = "watchBootstrap"
                /\ wStatus' \in {"watchReady", "watchError"}
                /\ delivered' = delivered + 1]_vars

\* C20: every error delivered to a Ready watcher makes at most one
\* subscribeWatch call, and the errors delivered with no mutation that is
\* not ignored in between make at most 5 such calls in total.
C20_ResubscriptionsBounded ==
    /\ resubs.subs <= resubs.errs
    /\ resubs.subs <= 5

\* a Ready watcher has resubscribed 5 times and received a further error
C20_Witness ==
    /\ wStatus = "watchReady"
    /\ resubs.subs = 5
    /\ resubs.errs > 5

\* C18: the registered callback is never invoked for a mutation of the
\* identifier counter or of a subscription list: the counter write of every
\* Raise and the list write of every Subscribe, once delivered, have made
\* no invocation.
C18_CounterAndListsNotDispatched ==
    /\ \A i \in 1..Len(cbLog) :
          /\ cbLog[i].key # getNextAlertIDKey
          /\ \A t \in AlertTypes : cbLog[i].key # getSubscriptionsKey(t)
    /\ Len(cbLog) <= Cardinality({j \in 1..kvSeen :
                                     kvLog[j].op \in {"Raise", "Clear",
                                                      "Erase"}})

\* the counter write of a Raise and the list write of a Subscribe have been
\* delivered, and so has the creation of the record
C18_Witness ==
    /\ \E j \in 1..kvSeen : kvLog[j].op = "getNextID"
    /\ \E j \in 1..kvSeen : kvLog[j].op = "Subscribe"
    /\ Len(cbLog) >= 1

\* the invocations the delivered mutations of alert records call for:
\* Create with the record for the creation of a Raise, Update with the
\* record for the write of a Clear, Delete with no alert for the deletion of
\* an Erase
RECURSIVE ExpectedCalls(_)
ExpectedCalls(log) ==
    IF log = <<>> THEN <<>>
    ELSE LET e == Head(log)
             call == IF e.op = "Raise"
                     THEN <<[alert |-> e.value.alert,
                             action |-> "ALERT_ACTION_TYPE_CREATE",
                             key |-> e.key]>>
                     ELSE IF e.op = "Clear"
                     THEN <<[alert |-> e.value.alert,
                             action |-> "ALERT_ACTION_TYPE_UPDATE",
                             key |-> e.key]>>
                     ELSE IF e.op = "Erase"
                     THEN <<[alert |-> <<>>,
                             action |-> "ALERT_ACTION_TYPE_DELETE",
                             key |-> e.key]>>
                     ELSE <<>>
         IN call \o ExpectedCalls(Tail(log))

\* C19: a Ready watcher that receives no error dispatches the mutations of
\* alert records one invocation per delivered mutation, in the order of
\* delivery, with the matching tag: Create with the decoded alert for the
\* creation of a Raise, Update with Cleared = true for the write of a
\* Clear, Delete with a null alert for the deletion of an Erase.
C19_DispatchedInOrder ==
    /\ cbLog = ExpectedCalls(SubSeq(kvLog, 1, kvSeen))
    /\ \A i \in 1..Len(cbLog) :
          cbLog[i].action = "ALERT_ACTION_TYPE_UPDATE"
              => cbLog[i].alert[1].Cleared

\* a creation, a write of Clear and a deletion have been dispatched
C19_Witness ==
    /\ wStatus = "watchReady"
    /\ \E i, j, k \in 1..Len(cbLog) :
          /\ i < j
          /\ j < k
          /\ cbLog[i].action = "ALERT_ACTION_TYPE_CREATE"
          /\ cbLog[j].action = "ALERT_ACTION_TYPE_UPDATE"
          /\ cbLog[k].action = "ALERT_ACTION_TYPE_DELETE"

\* ------------------------------------------------------------------------
\* Properties of the locks and registries
\* ------------------------------------------------------------------------
\* the thread t is accessing watcherMap / kvdbMap
AccessesWatcherMap(t) == tPc[t] \in {"watcherMapRead", "watcherMapWrite"}
AccessesKvdbMap(t) == tPc[t] \in {"kvdbMapRead", "kvdbMapWrite"}

\* C17: every access to watcherMap and to kvdbMap is made holding the one
\* registry lock, so a write of either map never runs concurrently with
\* another access to that map.
C17_MapWritesExclusive ==
    \A t, u \in Threads :
        t # u =>
            /\ ~(tPc[t] = "watcherMapWrite" /\ AccessesWatcherMap(u))
            /\ ~(tPc[t] = "kvdbMapWrite" /\ AccessesKvdbMap(u))

\* the part of it that concerns kvdbMap
KvdbMapWritesExclusive ==
    \A t, u \in Threads :
        t # u => ~(tPc[t] = "kvdbMapWrite" /\ AccessesKvdbMap(u))

\* ------------------------------------------------------------------------
\* C21: when a subscribed alert cannot be raised, Raise returns
\* ErrSubscribedRaise and its outermost activation has allocated no
\* identifier and created no record; when kva.raise of the alert passed in
\* fails, Raise does not return ErrSubscribedRaise.
\* ------------------------------------------------------------------------
C21_SubscribedRaiseErrorDistinct ==
    raiseObs.op = "Raise" =>
        /\ raiseObs.childFailed =>
               /\ raiseObs.err = ErrSubscribedRaise
               /\ raiseObs.own = NoOwn
        /\ (~raiseObs.childFailed /\ raiseObs.own.creates = 0) =>
               /\ raiseObs.err # Nil
               /\ raiseObs.err # ErrSubscribedRaise

\* a Raise failed on its second subscribed alert after it had created the
\* record of the first
C21_Witness ==
    /\ raiseObs.op = "Raise"
    /\ raiseObs.childFailed
    /\ raiseObs.err = ErrSubscribedRaise
    /\ Len(raiseObs.made) = 1
    /\ raiseObs.a.Resource # "NONE"

\* ------------------------------------------------------------------------
\* The alert store with callers that keep running
\* ------------------------------------------------------------------------
SpecFair == Spec /\ \A p \in Procs : WF_alertVars(AlertStep(p))

\* the top activation of caller p is in getNextIDFromKVDB
InAllocator(p) ==
    /\ pc[p] = "raise"
    /\ \/ Top(stack[p]).phase \in {"read", "cas"}
       \/ Top(stack[p]).phase = "alloc" /\ Top(stack[p]).a.Resource # "NONE"

\* getNextIDFromKVDB has returned an identifier to the top activation
HasIdentifier(p) == pc[p] = "raise" /\ Top(stack[p]).phase = "create"

\* caller p is about to make a compare-and-set that conflicts
ConflictPending(p) ==
    /\ pc[p] = "raise"
    /\ Top(stack[p]).phase = "cas"
    /\ kvCounter # Top(stack[p]).prevValue

\* caller p is back at the read of the counter after a conflict (prevValue
\* is set by the read only)
Retrying(p) ==
    /\ pc[p] = "raise"
    /\ Top(stack[p]).phase = "read"
    /\ Top(stack[p]).prevValue # <<>>

\* C22: a conflict of the compare-and-set on the counter is not returned to
\* the caller of Raise (the activation stays in the allocator and reads the
\* counter again), and with callers that keep running every identifier
\* allocation returns an identifier.
C22_ConflictRetriedUntilAllocated ==
    /\ [][\A p \in Procs :
            (ConflictPending(p) /\ stack'[p] # stack[p]) =>
                /\ Retrying(p)'
                /\ Len(stack'[p]) = Len(stack[p])
                /\ result' = result]_vars
    /\ \A p \in Procs : InAllocator(p) ~> HasIdentifier(p)

\* a caller reads the counter again after a conflict while the other holds
\* the identifier it took
C22_Witness ==
    \E p, q \in Procs :
        /\ Retrying(p)
        /\ HasIdentifier(q)
        /\ Top(stack[q]).nextAlertID = Top(stack[p]).nextAlertID

\* ------------------------------------------------------------------------
\* C23: every Raise call returns, whatever subscriptions Subscribe has
\* stored (a child of the type it is subscribed under, subscriptions that
\* refer to each other).
\* ------------------------------------------------------------------------
C23_RaiseTerminates ==
    \A p \in Procs : (pc[p] = "raise") ~> (pc[p] = "idle")

\* every Raise call returns or recurses without end
RaiseReturnsOrRecurses ==
    \A p \in Procs : (pc[p] = "raise") ~> (pc[p] \in {"idle", "overflow"})

\* the recursion that does not end runs through a subscription of a type
\* that an activation below is already raising
RecursesOnCycleOnly ==
    \A p \in Procs :
        pc[p] = "overflow" =>
            \E i, j \in 1..Len(stack[p]) :
                i < j /\ stack[p][i].a.AlertType = stack[p][j].a.AlertType

\* ------------------------------------------------------------------------
\* C24: a Clear never recreates a record an Erase has deleted: the record
\* of an erased alert stays absent, and the write-back of a Clear that finds
\* the record absent (its read came before the delete) fails with not-found
\* and leaves the record absent.
\* ------------------------------------------------------------------------
C24_ClearNeverRecreates ==
    /\ [](\A e \in erased : AlertRecordKey(e[1], e[2]) \notin DOMAIN kvAlerts)
    /\ [][\A p \in Procs :
            (/\ pc[p] = "clearUpdate"
             /\ pc'[p] = "idle"
             /\ local[p].key \notin DOMAIN kvAlerts) =>
                /\ local[p].key \notin DOMAIN kvAlerts'
                /\ clearObs'.err = KvErrNotFound]_vars

\* a Clear that read the record before an Erase deleted it has returned
\* from its write-back
C24_Witness ==
    /\ clearObs.op = "Clear"
    /\ ~clearObs.existed
    /\ clearObs.err = KvErrNotFound
    /\ \E e \in erased : AlertRecordKey(e[1], e[2]) = clearObs.key
    /\ clearObs.key \notin DOMAIN kvAlerts

============================================================================
